---- MODULE Spec2Model ----
(***************************************************************************)
(* Model of the clickhouse-bun-integration servers.                        *)
(*                                                                         *)
(*   src/index.ts          GET /transfers with the consistency-polling     *)
(*                         retry loop (WBTC tables)                        *)
(*   src/unnamed/part_000  GET /transfers, single query (REN tables)       *)
(*   src/unnamed/part_002  GET /transfers, single query (AAVE tables)      *)
(*   src/unnamed/part_001  WebSocket registry, broadcast, Goldsky webhook  *)
(*                                                                         *)
(* One /transfers request is followed from its arrival to its response;    *)
(* an action is the code that runs between two awaits of the handler.      *)
(***************************************************************************)
EXTENDS Integers, Sequences, FiniteSets, TLC

\* ------------------------------------------------------------------ bounds
\* longest row sequence the store returns
MaxLen == 3
\* highest block height of a row or of toBlock
MaxBlock == 3
\* number of WebSocket connections ever upgraded
MaxConns == 3
\* number of connections that may be delivered a second open event
MaxReopenConns == 2
\* number of open events delivered for one connection
MaxOpens == 2

\* ------------------------------------------------------- program constants
maxRetries == 10
retryDelay == 250
\* WebSocket.OPEN, the readyState value broadcastToClients tests for
WsOpen == 1

\* ------------------------------------------------------------ JS values
\* URLSearchParams.get / Headers.get give null for a parameter that is absent
Absent == "<null>"
\* the result of unary plus on a string that is not a number
NaN == -1

\* JS truthiness of a string-or-null: null and "" are falsy
Falsy(s) == s = Absent \/ s = ""

Digits == <<"0", "1", "2", "3", "4", "5", "6", "7", "8", "9">>
\* the decimal string of i, as it stands in a URL or in a row of the store
NumStr(i) == Digits[i + 1]

\* unary plus on a string: its number, 0 for "", NaN for anything else
ToNumber(s) ==
    IF s = "" THEN 0
    ELSE IF \E i \in 0..9 : Digits[i + 1] = s
         THEN CHOOSE i \in 0..9 : Digits[i + 1] = s
         ELSE NaN

\* a >= b on JS numbers: false as soon as one side is NaN
Ge(a, b) == a # NaN /\ b # NaN /\ a >= b

\* mutant: the slice starts one row late
SliceFromNext(arr, start) == SubSeq(arr, start + 2, Len(arr))

\* Array.prototype.slice(start) for 0 <= start
SliceFrom(arr, start) == SubSeq(arr, start + 1, Len(arr))

\* Array.prototype.slice(0, end) for end >= 0 or NaN (NaN counts as 0)
SliceTo(arr, end) ==
    IF end = NaN THEN <<>>
    ELSE IF end >= Len(arr) THEN arr
    ELSE SubSeq(arr, 1, end)

\* ------------------------------------------------------------ request inputs
Files == {"index.ts", "part_000", "part_002"}
Intervals == {Absent, "", "1h", "1m", "3h", "5m"}
Tokens == {Absent, "WBTC", "REN_USDC", "AAVE", "DOGE"}
ToBlocks == {Absent, "", "abc"} \cup {NumStr(i) : i \in 0..MaxBlock}
Ns == {Absent, "abc"} \cup {NumStr(i) : i \in 0..MaxLen}

\* fromTimestamp, toTimestamp: absent, a number of seconds, not a number
Stamps == {Absent, NumStr(7), "abc"}

\* last_block_number of a row, a decimal string
BlockStrs == {NumStr(i) : i \in 1..MaxBlock}
\* what one store call can return: the rows, each row named by its block
RowSeqs == UNION {[1..k -> BlockStrs] : k \in 0..MaxLen}

VARIABLES
    \* ---- one /transfers request
    file,          \* the source file that serves the request
    timeInterval, token, toBlock, n,   \* url.searchParams
    fromTimestamp, toTimestamp,        \* url.searchParams, in seconds
    pc,            \* "start", "query", "json", "sleep", "done"
    table,         \* the resolved table, Absent for null
    attempt,       \* let attempt
    resultData,    \* result.data of the attempt last judged (after the slice)
    hasData,       \* const hasData of the attempt last judged
    blockMatches,  \* let blockMatches of the attempt last judged
    data,          \* let data: [data, rows]
    response,      \* the Response returned, status 0 while there is none
    \* ---- what the request did (history)
    storeCalls,    \* client.query calls made
    inFlight,      \* store calls started and not yet settled
    delays,        \* setTimeout(retryDelay) sleeps started
    slept,         \* milliseconds of delay that elapsed
    raw,           \* result.data as the store returned it, last attempt
    successAt,     \* first attempt whose result was present and aligned, or 0
    faultAt,       \* the number of the store call that threw, or 0
    allEmpty,      \* every result so far had 0 rows
    sent,          \* the query of the last client.query call
    \* ---- the webhook hub (part_001)
    connectedClients, \* the Set, in insertion order
    readyState,       \* readyState of each connection, 0 before its upgrade
    expectedSecret,   \* process.env.GOLDSKY_WEBHOOK_SECRET
    wpc,              \* webhook request: "idle", "json", "done"
    wheader,          \* its Webhook-Auth-Key header
    wstatus,          \* its response status, 0 while there is none
    wbody,            \* its body: "json" decodes, "malformed" does not
    closeHandled,     \* the connections whose close handler has run
    opens,            \* the number of open events handled, per connection
    pass,             \* the last broadcast pass: visits, sends, threw
    \* ---- a second /transfers request of index.ts, served concurrently
    peer,             \* its parameters, its locals and its own store calls
    \* ---- the caller of the /transfers request
    goneAt            \* the attempt during which it disconnected, 0 if not

\* the request as received
params == <<file, timeInterval, token, toBlock, n, fromTimestamp, toTimestamp>>
reqVars == <<params, pc, table, attempt, resultData, hasData, blockMatches,
             data, response>>
histVars == <<storeCalls, inFlight, delays, slept, raw, successAt, faultAt,
              allEmpty, sent>>
hubVars == <<connectedClients, readyState, expectedSecret, wpc, wheader,
             wstatus, wbody, closeHandled, opens, pass>>
vars == <<reqVars, histVars, hubVars, peer, goneAt>>

\* ------------------------------------------------ /transfers of index.ts
NoResponse == [status |-> 0, fields |-> {}, data |-> <<>>, count |-> 0,
               data2 |-> <<>>, count2 |-> 0]

\* the 400 and 500 bodies: an error object, no rows
ErrorResponse(st) == [status |-> st, fields |-> {"error"}, data |-> <<>>,
                      count |-> 0, data2 |-> <<>>, count2 |-> 0]

\* the 200 body of index.ts: "data: data.data" is commented out, the body
\* carries count, and count2 and data2 of data2, which is never assigned
TransfersResponse(d, d2) ==
    [status |-> 200, fields |-> {"parameters", "count", "count2", "data2"},
     data |-> <<>>, count |-> d.rows, data2 |-> d2.data, count2 |-> d2.rows]

EmptyData == [data |-> <<>>, rows |-> 0]

\* let table = null; if "1h" ...; if "1m" ...
ResolveTable(interval) ==
    IF interval = "1m" THEN "wbtc_1m_transfers"
    ELSE IF interval = "1h" THEN "wbtc_1h_transfers"
    ELSE Absent

\* the for loop over result.data: the index (0-based) of the last row of the
\* leading run of rows with +last_block_number >= +toBlock, -1 if the first
\* row already fails; the scan breaks at the first row that fails
RECURSIVE ScanFrom(_, _, _, _)
ScanFrom(rows, i, target, highest) ==
    IF i >= Len(rows) THEN highest
    ELSE IF Ge(ToNumber(rows[i + 1]), ToNumber(target))
         THEN ScanFrom(rows, i + 1, target, i)
         ELSE highest

\* mutant: the bound is tested with > instead of >=
RECURSIVE ScanStrict(_, _, _, _)
ScanStrict(rows, i, target, highest) ==
    IF i >= Len(rows) THEN highest
    ELSE IF /\ Ge(ToNumber(rows[i + 1]), ToNumber(target))
            /\ ToNumber(rows[i + 1]) # ToNumber(target)
         THEN ScanStrict(rows, i + 1, target, i)
         ELSE highest

highestMatchingIndexStrict(rows, target) == ScanStrict(rows, 0, target, -1)

\* mutant: the scan stops at the first row that meets the bound
highestMatchingIndexFirst(rows, target) ==
    IF Len(rows) > 0 /\ Ge(ToNumber(rows[1]), ToNumber(target)) THEN 0 ELSE -1

highestMatchingIndex(rows, target) == ScanFrom(rows, 0, target, -1)

\* one attempt judged: hasData, blockMatches and result.data after the slice;
\* result.rows is the number of rows of result.data
Judge(rows, target) ==
    LET has == Len(rows) > 0
        checked == ~Falsy(target) /\ has
        h == highestMatchingIndex(rows, target)
    IN [hasData |-> has,
        blockMatches |-> IF checked THEN h >= 0 ELSE TRUE,
        data |-> IF checked /\ h >= 0 THEN SliceFrom(rows, h) ELSE rows]

\* mutant: any attempt with rows is taken, aligned or not
AcceptedHasDataOnly(j) == j.hasData

\* if (hasData && blockMatches): the attempt succeeds
Accepted(j) == j.hasData /\ j.blockMatches

\* mutant: the budget test is off by one
ExhaustedOffByOne(a) == a > maxRetries

\* if (attempt >= maxRetries): the budget is used up
Exhausted(a) == a >= maxRetries

\* if (n) { data.data = data.data.slice(0, +n); data.rows = data.data.length }
Truncate(d, cap) ==
    IF Falsy(cap) THEN d
    ELSE LET kept == SliceTo(d.data, ToNumber(cap))
         IN [data |-> kept, rows |-> Len(kept)]

\* what follows the loop: the truncation and the 200 response
Respond(d) ==
    /\ data' = Truncate(d, n)
    /\ response' = TransfersResponse(Truncate(d, n), EmptyData)
    /\ pc' = "done"

\* mutant: the table is queried once before the parameters are rejected
RejectAfterQuery(st) ==
    /\ response' = ErrorResponse(st)
    /\ pc' = "done"
    /\ storeCalls' = storeCalls + 1
    /\ UNCHANGED <<table, attempt, resultData, hasData, blockMatches, data>>
    /\ UNCHANGED <<inFlight, delays, slept, raw, successAt, faultAt, allEmpty,
                   sent>>

\* a return before the loop
Reject(st) ==
    /\ response' = ErrorResponse(st)
    /\ pc' = "done"
    /\ UNCHANGED <<table, attempt, resultData, hasData, blockMatches, data>>
    /\ UNCHANGED histVars

\* no query was sent yet
NoQuery == [table |-> Absent, fromArg |-> Absent, toArg |-> Absent,
            having |-> {}, orderBy |-> Absent]

\* const query: the text of the query as the values interpolated into it:
\* the table, the argument of each toDateTime(...) (Absent when the clause
\* is left out), the bounds of the HAVING clause (none) and the ORDER BY
query(tbl, from, to) ==
    [table |-> tbl,
     fromArg |-> IF Falsy(from) THEN Absent ELSE from,
     toArg |-> IF Falsy(to) THEN Absent ELSE to,
     having |-> {},
     orderBy |-> "last_block_number DESC"]

\* const query2, first SELECT: as query, with HAVING last_block_number <=
\* +toBlock when toBlock is given; it is built and never sent
query2(tbl, from, to, block) ==
    [table |-> tbl,
     fromArg |-> IF Falsy(from) THEN Absent ELSE from,
     toArg |-> IF Falsy(to) THEN Absent ELSE to,
     having |-> IF Falsy(block) THEN {} ELSE {ToNumber(block)},
     orderBy |-> "last_block_number DESC"]

\* a loop iteration begins: attempt++ and client.query({ query }) is
\* started; result, hasData and blockMatches of this iteration are not yet set
IssueQuery ==
    /\ attempt' = attempt + 1
    /\ storeCalls' = storeCalls + 1
    /\ inFlight' = inFlight + 1
    /\ resultData' = <<>>
    /\ hasData' = FALSE
    /\ blockMatches' = TRUE
    /\ raw' = <<>>
    /\ sent' = query(ResolveTable(timeInterval), fromTimestamp, toTimestamp)
    /\ pc' = "query"

\* the request is received: validation, table resolution, first attempt
Start ==
    /\ pc = "start" /\ file = "index.ts"
    /\ IF Falsy(timeInterval) \/ Falsy(token) THEN Reject(400)
       ELSE IF token # "WBTC" THEN Reject(400)
       ELSE IF Falsy(ResolveTable(timeInterval))
            THEN Reject(400)
            ELSE /\ table' = ResolveTable(timeInterval)
                 /\ IssueQuery
                 /\ UNCHANGED <<data, response>>
                 /\ UNCHANGED <<delays, slept, successAt, faultAt, allEmpty>>
    /\ UNCHANGED params
    /\ UNCHANGED <<hubVars, peer, goneAt>>

\* await client.query resolves; rows.json() is awaited next
QueryResolves ==
    /\ pc = "query" /\ file = "index.ts"
    /\ pc' = "json"
    /\ UNCHANGED <<params, table, attempt,
                   resultData, hasData, blockMatches, data, response>>
    /\ UNCHANGED histVars
    /\ UNCHANGED <<hubVars, peer, goneAt>>

\* mutant: a store fault is taken for "no data yet" and retried
FailRetried ==
    /\ pc' = "sleep"
    /\ delays' = delays + 1
    /\ inFlight' = inFlight - 1
    /\ faultAt' = storeCalls
    /\ UNCHANGED <<params, table, attempt,
                   resultData, hasData, blockMatches, data, response>>
    /\ UNCHANGED <<storeCalls, slept, raw, successAt, allEmpty, sent>>
    /\ UNCHANGED <<hubVars, peer, goneAt>>

\* catch (error): the 500 response
Fail ==
    /\ response' = ErrorResponse(500)
    /\ pc' = "done"
    /\ inFlight' = inFlight - 1
    /\ faultAt' = storeCalls
    /\ UNCHANGED <<params, table, attempt,
                   resultData, hasData, blockMatches, data>>
    /\ UNCHANGED <<storeCalls, delays, slept, raw, successAt, allEmpty, sent>>
    /\ UNCHANGED <<hubVars, peer, goneAt>>

\* client.query or rows.json() rejects: the store is unreachable or the
\* query failed
StoreFault ==
    /\ pc \in {"query", "json"} /\ file = "index.ts"
    /\ Fail

\* the terms of the claims (spec 4.2), for the history variable successAt:
\* present iff row count > 0; aligned iff no target
\* is given or some leading run of rows meets the bound
Present(rows) == Len(rows) > 0
Aligned(rows, target) ==
    \/ Falsy(target)
    \/ \E k \in 1..Len(rows) :
          \A i \in 1..k : Ge(ToNumber(rows[i]), ToNumber(target))

\* rows.json() resolves with the rows: the attempt is judged, and the
\* handler answers, or sleeps before the next attempt
JsonResolves(rows) ==
    /\ pc = "json" /\ file = "index.ts"
    /\ LET j == Judge(rows, toBlock)
       IN /\ resultData' = j.data
          /\ hasData' = j.hasData
          /\ blockMatches' = j.blockMatches
          /\ IF Accepted(j)
             THEN /\ Respond([data |-> j.data, rows |-> Len(j.data)])
                  /\ delays' = delays
             ELSE IF Exhausted(attempt)
                  THEN /\ Respond(EmptyData)
                       /\ delays' = delays
                  ELSE /\ pc' = "sleep"
                       /\ delays' = delays + 1
                       /\ UNCHANGED <<data, response>>
    /\ inFlight' = inFlight - 1
    /\ raw' = rows
    /\ successAt' = IF successAt = 0 /\ Present(rows) /\ Aligned(rows, toBlock)
                    THEN attempt ELSE successAt
    /\ allEmpty' = (allEmpty /\ Len(rows) = 0)
    /\ UNCHANGED <<params, table, attempt>>
    /\ UNCHANGED <<storeCalls, slept, faultAt, sent>>
    /\ UNCHANGED <<hubVars, peer, goneAt>>

\* mutant: the loop is left when the caller has disconnected
DelayElapsesCancelled ==
    /\ pc = "sleep" /\ file = "index.ts"
    /\ slept' = slept + retryDelay
    /\ IF attempt < maxRetries /\ goneAt = 0
       THEN /\ IssueQuery
            /\ UNCHANGED <<data, response>>
       ELSE /\ Respond(data)
            /\ UNCHANGED <<attempt, storeCalls, inFlight, resultData,
                           hasData, blockMatches, raw, sent>>
    /\ UNCHANGED <<params, table>>
    /\ UNCHANGED <<delays, successAt, faultAt, allEmpty>>
    /\ UNCHANGED <<hubVars, peer, goneAt>>

\* mutant: the promise of the delay is never resolved
DelayElapsesNeverResolved ==
    /\ FALSE
    /\ UNCHANGED vars

\* the setTimeout promise resolves: the while condition is tested and the
\* next attempt starts
DelayElapses ==
    /\ pc = "sleep" /\ file = "index.ts"
    /\ slept' = slept + retryDelay
    /\ IF attempt < maxRetries
       THEN /\ IssueQuery
            /\ UNCHANGED <<data, response>>
       ELSE /\ Respond(data)
            /\ UNCHANGED <<attempt, storeCalls, inFlight, resultData,
                           hasData, blockMatches, raw, sent>>
    /\ UNCHANGED <<params, table>>
    /\ UNCHANGED <<delays, successAt, faultAt, allEmpty>>
    /\ UNCHANGED <<hubVars, peer, goneAt>>

\* the caller closes its connection while the request is in the retry loop;
\* the handler never reads req.signal, nothing of the request changes
CallerDisconnects ==
    /\ file = "index.ts" /\ pc \in {"query", "json", "sleep"}
    /\ goneAt = 0
    /\ goneAt' = attempt
    /\ UNCHANGED <<reqVars, histVars, hubVars, peer>>

\* ------------------------- a second, concurrent /transfers of index.ts
\* every local of the handler (attempt, data, result, hasData, blockMatches)
\* is declared inside fetch, so a second invocation has its own copy of each;
\* calls and raw are its history: its store calls, the rows of its last one
NoPeer ==
    [timeInterval |-> Absent, token |-> Absent, toBlock |-> Absent,
     n |-> Absent, pc |-> "done", table |-> Absent, attempt |-> 0,
     resultData |-> <<>>, hasData |-> FALSE, blockMatches |-> TRUE,
     data |-> EmptyData, response |-> NoResponse, calls |-> 0, raw |-> <<>>]

\* what one store call returns while two requests are served
TwoRows == {<<>>, <<NumStr(1)>>, <<NumStr(2)>>, <<NumStr(2), NumStr(1)>>}

\* attempt++ and client.query({ query }) of the second request
PeerIssueQuery(p) ==
    [p EXCEPT !.attempt = @ + 1, !.calls = @ + 1, !.resultData = <<>>,
              !.hasData = FALSE, !.blockMatches = TRUE, !.raw = <<>>,
              !.pc = "query"]

\* the truncation and the 200 response of the second request
PeerRespond(p, d) ==
    [p EXCEPT !.data = Truncate(d, p.n),
              !.response = TransfersResponse(Truncate(d, p.n), EmptyData),
              !.pc = "done"]

\* a return before the loop, of the second request
PeerReject(p, st) == [p EXCEPT !.response = ErrorResponse(st), !.pc = "done"]

\* the second request is received: validation, table resolution, first
\* attempt
PeerStart ==
    /\ peer.pc = "start" /\ file = "index.ts"
    /\ peer' =
         IF Falsy(peer.timeInterval) \/ Falsy(peer.token)
         THEN PeerReject(peer, 400)
         ELSE IF peer.token # "WBTC" THEN PeerReject(peer, 400)
         ELSE IF Falsy(ResolveTable(peer.timeInterval))
              THEN PeerReject(peer, 400)
              ELSE PeerIssueQuery(
                       [peer EXCEPT !.table = ResolveTable(peer.timeInterval)])
    /\ UNCHANGED <<reqVars, histVars, hubVars, goneAt>>

\* await client.query of the second request resolves
PeerQueryResolves ==
    /\ peer.pc = "query" /\ file = "index.ts"
    /\ peer' = [peer EXCEPT !.pc = "json"]
    /\ UNCHANGED <<reqVars, histVars, hubVars, goneAt>>

\* client.query or rows.json() of the second request rejects
PeerStoreFault ==
    /\ peer.pc \in {"query", "json"} /\ file = "index.ts"
    /\ peer' = [peer EXCEPT !.response = ErrorResponse(500), !.pc = "done"]
    /\ UNCHANGED <<reqVars, histVars, hubVars, goneAt>>

\* rows.json() of the second request resolves with the rows
PeerJsonResolves(rows) ==
    /\ peer.pc = "json" /\ file = "index.ts"
    /\ LET j == Judge(rows, peer.toBlock)
           judged == [peer EXCEPT !.resultData = j.data,
                                  !.hasData = j.hasData,
                                  !.blockMatches = j.blockMatches,
                                  !.raw = rows]
       IN peer' =
            IF Accepted(j)
            THEN PeerRespond(judged, [data |-> j.data, rows |-> Len(j.data)])
            ELSE IF Exhausted(peer.attempt)
                 THEN PeerRespond(judged, EmptyData)
                 ELSE [judged EXCEPT !.pc = "sleep"]
    /\ UNCHANGED <<reqVars, histVars, hubVars, goneAt>>

\* mutant: attempt is declared at module scope, one counter for all requests
PeerDelayElapsesShared ==
    /\ peer.pc = "sleep" /\ file = "index.ts"
    /\ peer' = IF peer.attempt < maxRetries
               THEN PeerIssueQuery(peer)
               ELSE PeerRespond(peer, peer.data)
    /\ attempt' = attempt + 1
    /\ UNCHANGED <<params, pc, table, resultData, hasData, blockMatches,
                   data, response>>
    /\ UNCHANGED <<histVars, hubVars, goneAt>>

\* the setTimeout promise of the second request resolves
PeerDelayElapses ==
    /\ peer.pc = "sleep" /\ file = "index.ts"
    /\ peer' = IF peer.attempt < maxRetries
               THEN PeerIssueQuery(peer)
               ELSE PeerRespond(peer, peer.data)
    /\ UNCHANGED <<reqVars, histVars, hubVars, goneAt>>

\* ------------------------------- /transfers of part_000 and part_002
\* if (tokenPair !== "REN_USDC") / if (token !== "AAVE")
LegacyToken(f) == IF f = "part_000" THEN "REN_USDC" ELSE "AAVE"

\* let table = "raw_ren_transfers"; if "1h" ...; if "3h" ...
LegacyTable(f, interval) ==
    IF f = "part_000"
    THEN IF interval = "3h" THEN "ren_3h_transfers"
         ELSE IF interval = "1h" THEN "ren_1h_transfers"
         ELSE "raw_ren_transfers"
    ELSE IF interval = "3h" THEN "aave_3h_transfers"
         ELSE IF interval = "1h" THEN "aave_1h_transfers"
         ELSE "aave_transfers"

\* const query of the single-query handlers: only the table is interpolated
LegacyQuery(tbl) ==
    [table |-> tbl, fromArg |-> Absent, toArg |-> Absent, having |-> {},
     orderBy |-> "time_bucket DESC"]

\* the 200 body of the single-query handlers: { parameters, data, count }
LegacyResponse(rows) ==
    [status |-> 200, fields |-> {"parameters", "data", "count"},
     data |-> rows, count |-> Len(rows), data2 |-> <<>>, count2 |-> 0]

\* the request is received: validation, table resolution, the one query
LegacyStart ==
    /\ pc = "start" /\ file # "index.ts"
    /\ IF Falsy(timeInterval) \/ Falsy(token) \/ Falsy(toBlock)
       THEN Reject(400)
       ELSE IF token # LegacyToken(file) THEN Reject(400)
       ELSE /\ table' = LegacyTable(file, timeInterval)
            /\ storeCalls' = storeCalls + 1
            /\ inFlight' = inFlight + 1
            /\ sent' = LegacyQuery(LegacyTable(file, timeInterval))
            /\ pc' = "query"
            /\ UNCHANGED <<attempt, resultData, hasData, blockMatches, data,
                           response>>
            /\ UNCHANGED <<delays, slept, raw, successAt, faultAt, allEmpty>>
    /\ UNCHANGED params
    /\ UNCHANGED <<hubVars, peer, goneAt>>

LegacyQueryResolves ==
    /\ pc = "query" /\ file # "index.ts"
    /\ pc' = "json"
    /\ UNCHANGED <<params, table, attempt,
                   resultData, hasData, blockMatches, data, response>>
    /\ UNCHANGED histVars
    /\ UNCHANGED <<hubVars, peer, goneAt>>

\* rows.json() resolves: the rows are returned as they are
LegacyJsonResolves(rows) ==
    /\ pc = "json" /\ file # "index.ts"
    /\ response' = LegacyResponse(rows)
    /\ resultData' = rows
    /\ raw' = rows
    /\ pc' = "done"
    /\ inFlight' = inFlight - 1
    /\ UNCHANGED <<params, table, attempt,
                   hasData, blockMatches, data>>
    /\ UNCHANGED <<storeCalls, delays, slept, successAt, faultAt, allEmpty,
                   sent>>
    /\ UNCHANGED <<hubVars, peer, goneAt>>

LegacyStoreFault ==
    /\ pc \in {"query", "json"} /\ file # "index.ts"
    /\ Fail

\* ------------------------------------------- the webhook hub of part_001
Conns == 1..MaxConns
Secrets == {Absent, "", "s3cret"}
Headers == {Absent, "", "s3cret", "wrong"}
\* a request body that req.json() decodes, and one it rejects
Bodies == {"json", "malformed"}

\* a deleted entry of the Set's entry list, which a live iterator steps over
Empty == 0

NoPass == [visits |-> [c \in Conns |-> 0], sends |-> [c \in Conns |-> 0],
           threw |-> {}]

\* mutant: the registry is an array and add is push
SetAddPush(entries, c) == Append(entries, c)

\* Set.prototype.add: appended unless already a member
SetAdd(entries, c) ==
    IF \E k \in 1..Len(entries) : entries[k] = c THEN entries
    ELSE Append(entries, c)

\* mutant: the entry is spliced out, as of an array, and the later entries
\* move up under the iterator
SetDeleteSplice(entries, c) == SelectSeq(entries, LAMBDA e : e # c)

\* Set.prototype.delete: the entry is emptied in place, so that the position
\* of a live iterator stays valid
SetDelete(entries, c) ==
    [k \in 1..Len(entries) |-> IF entries[k] = c THEN Empty ELSE entries[k]]

\* the live members, in insertion order
Members(entries) == SelectSeq(entries, LAMBDA c : c # Empty)
MemberSet(entries) == {entries[k] : k \in 1..Len(entries)} \ {Empty}

\* mutant: the catch block only logs, the client stays registered
VisitClientKeepOnThrow(entries, c, rs, throwing, acc) ==
    LET seen == [acc EXCEPT !.visits[c] = @ + 1]
    IN IF rs[c] = WsOpen
       THEN IF c \in throwing
            THEN [entries |-> entries,
                  acc |-> [seen EXCEPT !.threw = @ \cup {c}]]
            ELSE [entries |-> entries,
                  acc |-> [seen EXCEPT !.sends[c] = @ + 1]]
       ELSE [entries |-> SetDelete(entries, c), acc |-> seen]

\* the body of the for-of loop for one client: send when open, delete when
\* the send throws or the client is not open
VisitClient(entries, c, rs, throwing, acc) ==
    LET seen == [acc EXCEPT !.visits[c] = @ + 1]
    IN IF rs[c] = WsOpen
       THEN IF c \in throwing
            THEN [entries |-> SetDelete(entries, c),
                  acc |-> [seen EXCEPT !.threw = @ \cup {c}]]
            ELSE [entries |-> entries,
                  acc |-> [seen EXCEPT !.sends[c] = @ + 1]]
       ELSE [entries |-> SetDelete(entries, c), acc |-> seen]
\* for (const client of connectedClients): the iterator walks the entry list
\* by position and steps over emptied entries
RECURSIVE Iterate(_, _, _, _, _)
Iterate(entries, i, rs, throwing, acc) ==
    IF i > Len(entries) THEN [entries |-> entries, acc |-> acc]
    ELSE IF entries[i] = Empty
         THEN Iterate(entries, i + 1, rs, throwing, acc)
         ELSE LET step == VisitClient(entries, entries[i], rs, throwing, acc)
              IN Iterate(step.entries, i + 1, rs, throwing, step.acc)

\* one call of broadcastToClients: the registry after it and what it did
broadcastToClients(entries, rs, throwing) ==
    LET done == Iterate(entries, 1, rs, throwing, NoPass)
    IN [clients |-> Members(done.entries), pass |-> done.acc]

\* mutant: the test for an unset GOLDSKY_WEBHOOK_SECRET is missing
validateWebhookSecretNoGuard(secret, expected) == secret = expected

\* mutant: only the presence of a configured secret is tested
validateWebhookSecretConfiguredOnly(secret, expected) == ~Falsy(expected)

\* secret === expectedSecret, false when no secret is configured
validateWebhookSecret(secret, expected) ==
    IF Falsy(expected) THEN FALSE ELSE secret = expected

\* websocket.open: the connection is upgraded and registered (connections
\* are numbered in the order of their upgrade); the greeting it is sent is
\* no broadcast and is not recorded
open(ws) ==
    /\ readyState[ws] = 0
    /\ \A c \in Conns : c < ws => readyState[c] # 0
    /\ readyState' = [readyState EXCEPT ![ws] = WsOpen]
    /\ connectedClients' = SetAdd(connectedClients, ws)
    /\ opens' = [opens EXCEPT ![ws] = @ + 1]
    /\ UNCHANGED <<expectedSecret, wpc, wheader, wstatus, wbody, closeHandled,
                   pass>>
    /\ UNCHANGED <<reqVars, histVars, peer, goneAt>>

\* websocket.open runs again for a connection that is open: the same
\* connection object is added to the registry a second time
reopen(ws) ==
    /\ readyState[ws] = WsOpen
    /\ opens[ws] < MaxOpens
    /\ connectedClients' = SetAdd(connectedClients, ws)
    /\ opens' = [opens EXCEPT ![ws] = @ + 1]
    /\ UNCHANGED <<readyState, expectedSecret, wpc, wheader, wstatus, wbody,
                   closeHandled, pass>>
    /\ UNCHANGED <<reqVars, histVars, peer, goneAt>>

\* the socket leaves the open state (2 closing, 3 closed) before its close
\* handler has run
SocketCloses(ws) ==
    /\ readyState[ws] \in {1, 2}
    /\ \E st \in {2, 3} :
          /\ st > readyState[ws]
          /\ readyState' = [readyState EXCEPT ![ws] = st]
    /\ UNCHANGED <<connectedClients, expectedSecret, wpc, wheader, wstatus,
                   wbody, closeHandled, pass>>
    /\ UNCHANGED <<opens, reqVars, histVars, peer, goneAt>>

\* mutant: the close handler only logs
closeKeeps(ws) ==
    /\ readyState[ws] \in {2, 3}
    /\ ws \notin closeHandled
    /\ readyState' = [readyState EXCEPT ![ws] = 3]
    /\ closeHandled' = closeHandled \cup {ws}
    /\ UNCHANGED <<connectedClients, expectedSecret, wpc, wheader, wstatus,
                   wbody, pass>>
    /\ UNCHANGED <<opens, reqVars, histVars, peer, goneAt>>

\* websocket.close: the connection is deleted from the registry
close(ws) ==
    /\ readyState[ws] \in {2, 3}
    /\ ws \notin closeHandled
    /\ readyState' = [readyState EXCEPT ![ws] = 3]
    /\ connectedClients' = Members(SetDelete(connectedClients, ws))
    /\ closeHandled' = closeHandled \cup {ws}
    /\ UNCHANGED <<expectedSecret, wpc, wheader, wstatus, wbody, pass>>
    /\ UNCHANGED <<opens, reqVars, histVars, peer, goneAt>>

\* mutant: a message from a subscriber registers it again
messageRejoins(ws) ==
    /\ readyState[ws] = WsOpen
    /\ connectedClients' = SetAdd(connectedClients, ws)
    /\ UNCHANGED <<readyState, expectedSecret, wpc, wheader, wstatus, wbody,
                   closeHandled, pass>>
    /\ UNCHANGED <<opens, reqVars, histVars, peer, goneAt>>

\* websocket.message: the message is logged and echoed to its sender; the
\* echo is no broadcast and is not recorded
message(ws) ==
    /\ readyState[ws] = WsOpen
    /\ UNCHANGED vars

\* websocket.drain: a log line
drain(ws) ==
    /\ readyState[ws] = WsOpen
    /\ UNCHANGED vars

\* mutant: the body is decoded before the secret is looked at
WebhookArrivesDecodeFirst(header) ==
    /\ wpc \in {"idle", "done"}
    /\ wheader' = header
    /\ wbody' \in Bodies
    /\ wpc' = "json" /\ wstatus' = 0
    /\ UNCHANGED <<connectedClients, readyState, expectedSecret, closeHandled,
                   pass>>
    /\ UNCHANGED <<opens, reqVars, histVars, peer, goneAt>>

\* POST /webhook/goldsky is received, with some body: the secret is
\* validated, then the body is awaited
WebhookArrives(header) ==
    /\ wpc \in {"idle", "done"}
    /\ wheader' = header
    /\ wbody' \in Bodies
    /\ IF validateWebhookSecret(header, expectedSecret)
       THEN wpc' = "json" /\ wstatus' = 0
       ELSE wpc' = "done" /\ wstatus' = 401
    /\ UNCHANGED <<connectedClients, readyState, expectedSecret, closeHandled,
                   pass>>
    /\ UNCHANGED <<opens, reqVars, histVars, peer, goneAt>>

\* mutant: a failed send fails the request
WebhookJsonResolvesStrict(throwing) ==
    /\ wpc = "json" /\ wbody = "json"
    /\ LET b == broadcastToClients(connectedClients, readyState, throwing)
       IN /\ connectedClients' = b.clients
          /\ pass' = b.pass
          /\ wstatus' = IF b.pass.threw = {} THEN 200 ELSE 500
    /\ wpc' = "done"
    /\ UNCHANGED <<readyState, expectedSecret, wheader, wbody, closeHandled>>
    /\ UNCHANGED <<opens, reqVars, histVars, peer, goneAt>>

\* req.json() resolves: the event is broadcast and the request answered;
\* throwing are the clients whose send throws
WebhookJsonResolves(throwing) ==
    /\ wpc = "json" /\ wbody = "json"
    /\ LET b == broadcastToClients(connectedClients, readyState, throwing)
       IN /\ connectedClients' = b.clients
          /\ pass' = b.pass
    /\ wstatus' = 200
    /\ wpc' = "done"
    /\ UNCHANGED <<readyState, expectedSecret, wheader, wbody, closeHandled>>
    /\ UNCHANGED <<opens, reqVars, histVars, peer, goneAt>>

\* mutant: the event is broadcast before the decode failure is noticed
WebhookJsonRejectsAfterBroadcast ==
    /\ wpc = "json" /\ wbody = "malformed"
    /\ LET b == broadcastToClients(connectedClients, readyState, {})
       IN /\ connectedClients' = b.clients
          /\ pass' = b.pass
    /\ wstatus' = 500
    /\ wpc' = "done"
    /\ UNCHANGED <<readyState, expectedSecret, wheader, wbody, closeHandled>>
    /\ UNCHANGED <<opens, reqVars, histVars, peer, goneAt>>

\* req.json() rejects: the body does not decode
WebhookJsonRejects ==
    /\ wpc = "json" /\ wbody = "malformed"
    /\ wstatus' = 500
    /\ wpc' = "done"
    /\ UNCHANGED <<connectedClients, readyState, expectedSecret, wheader,
                   wbody, closeHandled, pass>>
    /\ UNCHANGED <<opens, reqVars, histVars, peer, goneAt>>

\* ------------------------------------------------------- specifications
RequestIdle ==
    /\ table = Absent /\ attempt = 0 /\ resultData = <<>>
    /\ hasData = FALSE /\ blockMatches = TRUE
    /\ data = EmptyData /\ response = NoResponse
    /\ storeCalls = 0 /\ inFlight = 0 /\ delays = 0 /\ slept = 0
    /\ raw = <<>> /\ successAt = 0 /\ faultAt = 0 /\ allEmpty = TRUE
    /\ sent = NoQuery
    /\ goneAt = 0

HubIdle ==
    /\ connectedClients = <<>>
    /\ readyState = [c \in Conns |-> 0]
    /\ wpc = "idle" /\ wheader = Absent /\ wstatus = 0 /\ wbody = Absent
    /\ closeHandled = {}
    /\ opens = [c \in Conns |-> 0]
    /\ pass = NoPass

\* a /transfers request arrives at one of the three servers; it carries no
\* time range
Init ==
    /\ file \in Files
    /\ timeInterval \in Intervals
    /\ token \in Tokens
    /\ toBlock \in ToBlocks
    /\ n \in (IF file = "index.ts" THEN Ns ELSE {Absent})
    /\ fromTimestamp = Absent /\ toTimestamp = Absent
    /\ pc = "start"
    /\ RequestIdle
    /\ expectedSecret = Absent
    /\ HubIdle
    /\ peer = NoPeer

Next ==
    \/ Start
    \/ QueryResolves
    \/ StoreFault
    \/ \E rows \in RowSeqs : JsonResolves(rows)
    \/ DelayElapses
    \/ LegacyStart
    \/ LegacyQueryResolves
    \/ \E rows \in RowSeqs : LegacyJsonResolves(rows)
    \/ LegacyStoreFault

Spec == Init /\ [][Next]_vars

\* a /transfers request for a known asset and interval arrives, with or
\* without a target block and a time range
InitQuery ==
    /\ file \in Files
    /\ timeInterval = "1h"
    /\ token \in {"WBTC", "REN_USDC", "AAVE", "DOGE"}
    /\ toBlock \in {Absent, "abc", NumStr(2)}
    /\ n = Absent
    /\ fromTimestamp \in Stamps /\ toTimestamp \in Stamps
    /\ pc = "start"
    /\ RequestIdle
    /\ expectedSecret = Absent
    /\ HubIdle
    /\ peer = NoPeer

SpecQuery == InitQuery /\ [][Next]_vars

\* the hub server starts with no connection; no /transfers request is made
InitHub ==
    /\ file = "part_001"
    /\ timeInterval = Absent /\ token = Absent /\ toBlock = Absent
    /\ n = Absent /\ fromTimestamp = Absent /\ toTimestamp = Absent
    /\ pc = "done"
    /\ RequestIdle
    /\ expectedSecret \in Secrets
    /\ HubIdle
    /\ peer = NoPeer

NextHub ==
    \/ \E ws \in Conns : open(ws)
    \/ \E ws \in Conns : message(ws)
    \/ \E ws \in Conns : drain(ws)
    \/ \E ws \in Conns : SocketCloses(ws)
    \/ \E ws \in Conns : close(ws)
    \/ \E header \in Headers : WebhookArrives(header)
    \/ \E throwing \in SUBSET Conns : WebhookJsonResolves(throwing)
    \/ WebhookJsonRejects

SpecHub == InitHub /\ [][NextHub]_vars

\* the connections that may be delivered the open event again
ReopenConns == 1..MaxReopenConns

\* the hub with a secret configured
InitReopen ==
    /\ InitHub
    /\ expectedSecret = "s3cret"

\* the hub where only the first connections connect, the open event of a
\* connection may be delivered again, and the webhooks carry the secret
NextReopen ==
    \/ \E ws \in ReopenConns : open(ws)
    \/ \E ws \in ReopenConns : reopen(ws)
    \/ \E ws \in ReopenConns : SocketCloses(ws)
    \/ \E ws \in ReopenConns : close(ws)
    \/ WebhookArrives("s3cret")
    \/ \E throwing \in SUBSET ReopenConns : WebhookJsonResolves(throwing)
    \/ WebhookJsonRejects

SpecReopen == InitReopen /\ [][NextReopen]_vars

\* two /transfers requests for WBTC arrive at index.ts, each with or without
\* a target block, the second with or without a row cap
InitTwo ==
    /\ file = "index.ts"
    /\ timeInterval = "1h" /\ token = "WBTC"
    /\ toBlock \in {Absent, NumStr(2)}
    /\ n = Absent
    /\ fromTimestamp = Absent /\ toTimestamp = Absent
    /\ pc = "start"
    /\ RequestIdle
    /\ expectedSecret = Absent
    /\ HubIdle
    /\ \E block \in {Absent, NumStr(2)}, cap \in {Absent, NumStr(1)} :
          peer = [NoPeer EXCEPT !.timeInterval = "1h", !.token = "WBTC",
                                !.toBlock = block, !.n = cap, !.pc = "start"]

\* the two handlers interleave at their awaits
NextTwo ==
    \/ Start
    \/ QueryResolves
    \/ StoreFault
    \/ \E rows \in TwoRows : JsonResolves(rows)
    \/ DelayElapses
    \/ PeerStart
    \/ PeerQueryResolves
    \/ PeerStoreFault
    \/ \E rows \in TwoRows : PeerJsonResolves(rows)
    \/ PeerDelayElapses

SpecTwo == InitTwo /\ [][NextTwo]_vars

\* a /transfers request arrives at one of the three servers, for a known or
\* an unknown asset, with or without a target block
InitFair ==
    /\ file \in Files
    /\ timeInterval = "1h"
    /\ token \in {"WBTC", "REN_USDC", "AAVE", "DOGE"}
    /\ toBlock \in {Absent, NumStr(2)}
    /\ n = Absent
    /\ fromTimestamp = Absent /\ toTimestamp = Absent
    /\ pc = "start"
    /\ RequestIdle
    /\ expectedSecret = Absent
    /\ HubIdle
    /\ peer = NoPeer

\* a step of the handler: it runs from one await to the next
HandlerStep ==
    \/ Start
    \/ QueryResolves
    \/ StoreFault
    \/ \E rows \in TwoRows : JsonResolves(rows)
    \/ DelayElapses
    \/ LegacyStart
    \/ LegacyQueryResolves
    \/ \E rows \in TwoRows : LegacyJsonResolves(rows)
    \/ LegacyStoreFault

NextFair ==
    \/ HandlerStep
    \/ CallerDisconnects

\* every store call and every delay completes: a handler that waits is
\* resumed
SpecFair == InitFair /\ [][NextFair]_vars /\ WF_vars(HandlerStep)

\* ---------------------------------------------------------------- claims
\* an attempt of the retry loop of index.ts has been judged in this state
Judged == file = "index.ts" /\ pc \in {"sleep", "done"} /\ attempt >= 1
          /\ faultAt = 0

\* C1: a /transfers request makes at most maxRetries (10) store calls, and
\* once attempt k has returned a present-and-aligned result (successAt = k)
\* no later store call is made: the number of calls stays k.
C1_RetryTermination ==
    /\ storeCalls <= maxRetries
    /\ successAt # 0 => storeCalls = successAt

\* attempt 3 of 10 succeeded on a row that just meets the bound, and the
\* request is answered
C1_Witness ==
    /\ pc = "done" /\ successAt = 3 /\ storeCalls = 3
    /\ ~Falsy(toBlock) /\ raw[1] = toBlock

\* C2: when all maxRetries attempts completed without a store fault and none
\* was present and aligned, the answer is 200 with no rows and count 0.
C2_StaleOutcome ==
    (/\ file = "index.ts" /\ pc = "done"
     /\ storeCalls = maxRetries /\ faultAt = 0 /\ successAt = 0)
    => /\ response.status = 200
       /\ response.count = 0
       /\ response.data = <<>> /\ response.data2 = <<>>
       /\ data = EmptyData

\* the budget ran out on rows that were present but not aligned
C2_Witness ==
    /\ file = "index.ts" /\ pc = "done"
    /\ storeCalls = maxRetries /\ faultAt = 0 /\ successAt = 0
    /\ Len(raw) > 0 /\ ~allEmpty
    /\ response.status = 200 /\ response.count = 0

\* the rows are in block-descending order
Descending(rows) ==
    \A i \in 1..(Len(rows) - 1) :
        ToNumber(rows[i]) >= ToNumber(rows[i + 1])

\* the lengths k of the leading runs of rows that all meet the bound
MeetingPrefixes(rows, target) ==
    {k \in 1..Len(rows) :
        \A i \in 1..k : Ge(ToNumber(rows[i]), ToNumber(target))}

Max(S) == CHOOSE x \in S : \A y \in S : y <= x

C4_FaultNotRetried ==
    faultAt # 0
    => /\ pc = "done"
       /\ response.status = 500
       /\ storeCalls = faultAt
       /\ inFlight = 0
       /\ delays = faultAt - 1
       /\ slept = retryDelay * (faultAt - 1)

\* the third attempt faulted
C4_Witness ==
    /\ file = "index.ts" /\ faultAt = 3 /\ response.status = 500
    /\ storeCalls = 3 /\ delays = 2

\* the rows a response returns: its data field, when it has one
ReturnedRows(r) == IF "data" \in r.fields THEN r.data ELSE r.data2

\* C5: the cap n is applied after the trim: the returned rows are the first
\* n rows of the post-trim sequence of the successful attempt, and the
\* reported count is the number of rows left after truncation.
C5_TruncationOrder ==
    (/\ file = "index.ts" /\ pc = "done" /\ successAt # 0
     /\ n \in {NumStr(i) : i \in 0..9})
    => /\ ReturnedRows(response) = SliceTo(resultData, ToNumber(n))
       /\ response.count = Len(ReturnedRows(response))

\* C6: the store calls of one request never overlap; one delay of retryDelay
\* ms lies between two consecutive calls, none before the first and none
\* after the last; a delay starts only after an attempt was judged not
\* present or not aligned; with 0 rows on every attempt the request makes
\* exactly 10 calls and 9 delays.
C6_SequentialAttempts ==
    file = "index.ts"
    => /\ inFlight = (IF pc \in {"query", "json"} THEN 1 ELSE 0)
       /\ storeCalls = attempt
       /\ delays = (IF pc = "sleep" THEN storeCalls
                    ELSE IF storeCalls = 0 THEN 0 ELSE storeCalls - 1)
       /\ slept = retryDelay * (IF pc = "sleep" THEN delays - 1 ELSE delays)
       /\ pc = "sleep" => ~(Present(raw) /\ Aligned(raw, toBlock))
       /\ (pc = "done" /\ attempt >= 1 /\ faultAt = 0 /\ allEmpty)
          => (storeCalls = 10 /\ delays = 9 /\ slept = 2250)

\* every attempt returned 0 rows and the request is answered
C6_Witness ==
    /\ file = "index.ts" /\ pc = "done" /\ attempt >= 1 /\ faultAt = 0
    /\ allEmpty /\ storeCalls = 10 /\ delays = 9 /\ slept = 2250

\* the enumerated (asset, interval) pairs of each server
ValidPair(f, asset, interval) ==
    \/ f = "index.ts" /\ asset = "WBTC" /\ interval \in {"1h", "1m"}
    \/ f = "part_000" /\ asset = "REN_USDC" /\ interval \in {"1h", "3h"}
    \/ f = "part_002" /\ asset = "AAVE" /\ interval \in {"1h", "3h"}

\* C7: a request whose (asset, interval) pair is not in the enumerated valid
\* set runs no query on any table and is answered 400; an unrecognized
\* interval never falls back to a default table.
C7_InvalidPairRejected ==
    ~ValidPair(file, token, timeInterval)
    => /\ storeCalls = 0
       /\ table = Absent
       /\ pc = "done" => response.status = 400

\* C8: a /transfers request answered 400 has made no store call and taken
\* no delay: validation is over before the first attempt.
C8_ValidationBeforeIO ==
    response.status = 400
    => /\ storeCalls = 0 /\ inFlight = 0
       /\ delays = 0 /\ slept = 0
       /\ attempt = 0

\* an unknown interval for a known asset is answered 400
C8_Witness ==
    /\ file = "index.ts" /\ token = "WBTC" /\ timeInterval = "5m"
    /\ pc = "done" /\ response.status = 400 /\ storeCalls = 0

\* this step is one call of broadcastToClients
BroadcastStep == wpc = "json" /\ wpc' = "done" /\ wstatus' = 200

\* C9: registry self-pruning. After broadcast returns, every subscriber that
\* was observed non-open or whose send failed is out of the registry, and
\* every subscriber that was open and whose send succeeded is still in it
\* and received the event.
C9_SelfPruning ==
    [][BroadcastStep =>
        \A c \in MemberSet(connectedClients) :
            IF readyState[c] # WsOpen \/ c \in pass'.threw
            THEN c \notin MemberSet(connectedClients')
            ELSE /\ c \in MemberSet(connectedClients')
                 /\ pass'.sends[c] = 1]_vars

\* 3 subscribers, one send failed: 2 registered, 2 deliveries
C9_Witness ==
    /\ wpc = "done" /\ wstatus = 200
    /\ \A c \in Conns : pass.visits[c] = 1
    /\ Cardinality(pass.threw) = 1
    /\ Cardinality({c \in Conns : pass.sends[c] = 1}) = 2
    /\ Len(connectedClients) = 2

\* C10: one broadcast call visits every subscriber registered at call time
\* exactly once although members are deleted during the iteration: none is
\* skipped, none is sent the event twice, and the registry changes only by
\* the deletions of the pass (no open or close event falls inside it).
C10_VisitsEachOnce ==
    [][BroadcastStep =>
        /\ \A c \in Conns :
              /\ pass'.visits[c] =
                     (IF c \in MemberSet(connectedClients) THEN 1 ELSE 0)
              /\ pass'.sends[c] <= pass'.visits[c]
        /\ MemberSet(connectedClients') \subseteq MemberSet(connectedClients)
        /\ readyState' = readyState
        /\ closeHandled' = closeHandled]_vars

\* the first member was deleted during the pass (not open) and the members
\* after it were still visited, the second one deleted too (its send threw)
C10_Witness ==
    /\ wpc = "done" /\ wstatus = 200
    /\ \A c \in Conns : pass.visits[c] = 1
    /\ readyState[1] # WsOpen /\ 2 \in pass.threw /\ pass.sends[3] = 1
    /\ connectedClients = <<3>>


\* C11: fail-closed auth. When no webhook secret is configured, every POST
\* /webhook request is answered 401 whatever its Webhook-Auth-Key header is:
\* no request gets past the check to the decoding of its body.
C11_FailClosed ==
    Falsy(expectedSecret)
    => /\ wpc # "json"
       /\ wstatus \in {0, 401}
       /\ wpc = "done" => wstatus = 401

\* no secret is configured and a request with a correct-looking header, or
\* with the same empty value as the configuration, was answered 401
C11_Witness ==
    /\ wpc = "done" /\ wstatus = 401
    /\ \/ expectedSecret = Absent /\ wheader = "s3cret"
       \/ expectedSecret = "" /\ wheader = ""

\* the header of a webhook request is missing or is not the configured secret
RejectedHeader(h) == h = Absent \/ h # expectedSecret

\* this step is the arrival of a webhook request: no connection event, and
\* no request is being decoded
ArrivalStep ==
    /\ wpc \in {"idle", "done"}
    /\ readyState' = readyState /\ closeHandled' = closeHandled

\* C12: a webhook request whose secret header is missing or differs from the
\* configured secret is answered 401 at once and has no effect: the registry
\* is unchanged and no subscriber is sent anything.
C12_BadSecretNoEffect ==
    [][(ArrivalStep /\ RejectedHeader(wheader'))
        => /\ wpc' = "done" /\ wstatus' = 401
           /\ connectedClients' = connectedClients
           /\ pass' = pass]_vars

\* a request with a wrong header was answered 401 while a secret is
\* configured and a subscriber is registered
C12_Witness ==
    /\ expectedSecret = "s3cret" /\ wheader = "wrong"
    /\ wpc = "done" /\ wstatus = 401
    /\ Len(connectedClients) > 0

\* C13: an authenticated webhook request whose body fails to decode is
\* answered 500 and is not broadcast: the registry is unchanged and no
\* subscriber is sent anything.
C13_MalformedNoBroadcast ==
    [][(wpc = "json" /\ wbody = "malformed" /\ wpc' # "json")
        => /\ wpc' = "done" /\ wstatus' = 500
           /\ connectedClients' = connectedClients
           /\ pass' = pass]_vars

\* an authenticated request with a malformed body was answered 500 while an
\* open subscriber is registered
C13_Witness ==
    /\ wheader = expectedSecret /\ wbody = "malformed"
    /\ wpc = "done" /\ wstatus = 500
    /\ \E c \in MemberSet(connectedClients) : readyState[c] = WsOpen


\* C14: when toBlock is supplied, the query sent to the store on each attempt
\* carries the upper bound on block height (HAVING last_block_number <=
\* toBlock) and orders the rows by block height descending.
C14_QueryHasBlockBound ==
    (file = "index.ts" /\ ~Falsy(toBlock) /\ storeCalls > 0)
    => /\ sent.having = {ToNumber(toBlock)}
       /\ sent.orderBy = "last_block_number DESC"

\* the tables a /transfers query may name
AllowedTables ==
    {"wbtc_1h_transfers", "wbtc_1m_transfers",
     "ren_1h_transfers", "ren_3h_transfers", "raw_ren_transfers",
     "aave_1h_transfers", "aave_3h_transfers", "aave_transfers"}

\* the text is a number
Numeric(text) == text # "" /\ ToNumber(text) # NaN

\* C15: every request-supplied value placed in the text of a query sent to
\* the store is a number or an allow-listed table: a fromTimestamp,
\* toTimestamp or toBlock that is not numeric is never embedded raw.
C15_OnlyNumbersInQuery ==
    storeCalls > 0
    => /\ sent.table \in AllowedTables
       /\ sent.fromArg # Absent => Numeric(sent.fromArg)
       /\ sent.toArg # Absent => Numeric(sent.toArg)
       /\ \A b \in sent.having : b # NaN

\* C16: every 200 response of /transfers carries the parameters, the rows in
\* a data field and a count equal to the number of rows in data; after a
\* successful attempt data is the trimmed and truncated rows of that attempt.
C16_ResponseShape ==
    (pc = "done" /\ response.status = 200)
    => /\ {"parameters", "data", "count"} \subseteq response.fields
       /\ response.count = Len(response.data)
       /\ (file = "index.ts" /\ successAt # 0)
          => response.data = SliceTo(resultData,
                                     IF Falsy(n) THEN Len(resultData)
                                     ELSE ToNumber(n))


\* the number of entries of the registry that hold connection c
Copies(entries, c) == Cardinality({k \in 1..Len(entries) : entries[k] = c})

\* C17: add is idempotent per connection identity. A connection whose open
\* event was handled again while it was registered is in the registry once,
\* and the next broadcast visits it once and, when it is open and its send
\* does not throw, delivers the event to it exactly once.
C17_AddIdempotent ==
    /\ [](\A c \in Conns : Copies(connectedClients, c) <= 1)
    /\ [][BroadcastStep =>
            \A c \in MemberSet(connectedClients) :
                opens[c] > 1
                => /\ pass'.visits[c] = 1
                   /\ pass'.sends[c] =
                        (IF readyState[c] = WsOpen /\ c \notin pass'.threw
                         THEN 1 ELSE 0)]_vars

\* connection 1 was opened twice, is registered once and was sent the event
\* once by the broadcast that followed
C17_Witness ==
    /\ opens[1] = 2
    /\ Copies(connectedClients, 1) = 1
    /\ wpc = "done" /\ wstatus = 200
    /\ pass.visits[1] = 1 /\ pass.sends[1] = 1

\* C18: a subscriber is in the registry only between its open event and its
\* close event: a registered connection was opened and its close handler has
\* not run, and a broadcast after the close handler of a connection neither
\* visits nor sends to that connection.
C18_RegisteredBetweenOpenAndClose ==
    /\ [](\A c \in MemberSet(connectedClients) :
             readyState[c] # 0 /\ c \notin closeHandled)
    /\ [][BroadcastStep =>
            \A c \in closeHandled :
                pass'.visits[c] = 0 /\ pass'.sends[c] = 0]_vars

\* connection 1 was closed; the broadcast sent to connection 2 only
C18_Witness ==
    /\ 1 \in closeHandled /\ 1 \notin MemberSet(connectedClients)
    /\ wpc = "done" /\ wstatus = 200
    /\ pass.visits[1] = 0
    /\ pass.sends[2] = 1


\* the rows the trim keeps of block-descending rows (spec 4.2): all of them
\* without a target or when no row meets the bound, else the rows from the
\* last row of the longest leading run that meets the bound
TrimmedBy(rows, target) ==
    IF Falsy(target) \/ MeetingPrefixes(rows, target) = {} THEN rows
    ELSE SubSeq(rows, Max(MeetingPrefixes(rows, target)), Len(rows))

\* the state of one request is what its own parameters (target, cap) and the
\* rows of its own store calls make it: a attempts for calls store calls, a
\* delay only after a result of its own that is not present and aligned, and
\* a 200 response that counts its own trimmed and capped rows, or no row
\* when its own budget is used up
OwnOutcome(target, cap, a, calls, at, rows, kept, resp) ==
    LET good == Present(rows) /\ Aligned(rows, target)
        capped == IF Falsy(cap) THEN TrimmedBy(rows, target)
                  ELSE SliceTo(TrimmedBy(rows, target), ToNumber(cap))
    IN /\ a = calls /\ a <= maxRetries
       /\ at = "sleep" => ~good /\ a < maxRetries /\ kept = TrimmedBy(rows, target)
       /\ (at = "done" /\ resp.status = 200)
          => /\ kept = TrimmedBy(rows, target)
             /\ IF good THEN resp.count = Len(capped)
                ELSE a = maxRetries /\ resp.count = 0

\* C19: two concurrent /transfers requests are independent under every
\* interleaving at the awaits: a step of one request leaves the other
\* request's state as it was, and the attempt count, the retry decision, the
\* trimmed rows and the response of each request are determined by its own
\* parameters and the rows its own store calls returned.
C19_RequestsIndependent ==
    /\ [][/\ peer' # peer => UNCHANGED <<reqVars, histVars>>
          /\ <<reqVars, histVars>>' # <<reqVars, histVars>>
             => peer' = peer]_vars
    /\ [](OwnOutcome(toBlock, n, attempt, storeCalls, pc, raw, resultData,
                     response)
          /\ OwnOutcome(peer.toBlock, peer.n, peer.attempt, peer.calls,
                        peer.pc, peer.raw, peer.resultData, peer.response))

\* both requests are suspended, the first in the delay after its second
\* attempt, the second in the store call of its third attempt
C19_Witness ==
    /\ pc = "sleep" /\ attempt = 2
    /\ peer.pc = "json" /\ peer.attempt = 3


\* C20: without a toBlock the block-alignment check is skipped: the first
\* attempt with a row count > 0 succeeds and its rows are returned untrimmed
\* and in store order (all of them when no cap n is given), and an attempt
\* with row count 0 is never accepted as a success.
C20_NoTargetFirstRows ==
    (Judged /\ Falsy(toBlock))
    => /\ blockMatches
       /\ Len(raw) > 0
          => /\ pc = "done" /\ response.status = 200
             /\ successAt = attempt
             /\ resultData = raw
             /\ Falsy(n) => /\ "data" \in response.fields
                            /\ response.data = raw
       /\ Len(raw) = 0
          => /\ successAt = 0
             /\ pc = "done" => attempt = maxRetries /\ response.count = 0


\* C21: no cancellation. A /transfers request whose caller disconnected
\* during the retry loop goes on: each delay is followed by the next attempt,
\* and the request ends, on a success, on a store fault or with all
\* maxRetries attempts and maxRetries - 1 delays made.
C21_NoCancellation ==
    /\ (goneAt # 0) ~> (pc = "done")
    /\ [][(goneAt # 0 /\ pc = "sleep" /\ pc' # "sleep")
            => pc' = "query" /\ attempt' = attempt + 1]_vars
    /\ []((goneAt # 0 /\ pc = "done")
            => \/ faultAt # 0 /\ response.status = 500
               \/ successAt = attempt /\ response.status = 200
               \/ /\ attempt = maxRetries /\ delays = maxRetries - 1
                  /\ response.status = 200)

\* the caller left during attempt 2; all 10 attempts were made, none
\* succeeded
C21_Witness ==
    /\ goneAt = 2
    /\ pc = "done" /\ attempt = maxRetries /\ successAt = 0 /\ faultAt = 0
    /\ response.status = 200

\* C22: every /transfers request is eventually answered, and answered once:
\* there is no response before the handler returns, the response is a 200,
\* 400 or 500, and it does not change afterwards.
C22_OneResponse ==
    /\ <>(pc = "done")
    /\ [](pc # "done" => response = NoResponse)
    /\ [](pc = "done" => response.status \in {200, 400, 500})
    /\ [][pc = "done" => pc' = "done" /\ response' = response]_vars

\* the last attempt of the budget succeeded
C22_Witness ==
    /\ file = "index.ts" /\ pc = "done" /\ response.status = 200
    /\ storeCalls = maxRetries /\ successAt = maxRetries


C23_NotMonotonic ==
    /\ Judged /\ toBlock = NumStr(2)
    /\ raw = <<NumStr(3), NumStr(1), NumStr(3)>>
    /\ hasData /\ blockMatches
    /\ resultData = raw

\* C24: authentication comes before decoding. A webhook request with a bad or
\* missing secret is answered 401 whatever its body: it is never waiting for
\* req.json() and never gets the 500 of a body that does not decode.
C24_AuthBeforeDecode ==
    (wpc # "idle" /\ RejectedHeader(wheader))
    => wpc = "done" /\ wstatus = 401

\* a wrong secret with a malformed body: 401
C24_Witness ==
    /\ expectedSecret = "s3cret" /\ wheader = "wrong" /\ wbody = "malformed"
    /\ wpc = "done" /\ wstatus = 401

\* C25: an authenticated webhook request with a decodable body is answered
\* 200 after exactly one broadcast pass (each registered connection visited
\* once), whether the registry is empty, some sends fail or all sends fail.
C25_AlwaysAccepted ==
    [][(wpc = "json" /\ wbody = "json" /\ wpc' # "json")
        => /\ wpc' = "done" /\ wstatus' = 200
           /\ \A c \in Conns :
                 pass'.visits[c] =
                     (IF c \in MemberSet(connectedClients) THEN 1 ELSE 0)
           /\ pass'.threw \subseteq MemberSet(connectedClients)]_vars

\* every connection was open and every send failed: 200, registry empty
C25_Witness ==
    /\ wpc = "done" /\ wstatus = 200 /\ wbody = "json"
    /\ pass.threw = Conns
    /\ \A c \in Conns : pass.sends[c] = 0
    /\ connectedClients = <<>>

\* C26: a connection that was opened and is out of the registry (while it is
\* open, only a failed send of a broadcast pass takes it out) is never put
\* back by a later step: it stays out and every later broadcast skips it.
C26_NeverReadded ==
    [][\A c \in Conns :
          (readyState[c] # 0 /\ c \notin MemberSet(connectedClients))
          => /\ c \notin MemberSet(connectedClients')
             /\ BroadcastStep
                => pass'.visits[c] = 0 /\ pass'.sends[c] = 0]_vars

\* connection 1 is open and out of the registry; the last broadcast skipped
\* it and was sent to connection 2
C26_Witness ==
    /\ readyState[1] = WsOpen /\ 1 \notin MemberSet(connectedClients)
    /\ 1 \notin pass.threw
    /\ wpc = "done" /\ wstatus = 200
    /\ pass.visits[1] = 0 /\ pass.sends[2] = 1

====
